---- MODULE Spec2Model ----
(***************************************************************************)
(* Alert evaluation and continuous-notification engine of the monitor bot: *)
(* the poll ticks and renotify loops of the five monitor classes of        *)
(* monitor.py, driven by the pause/continue commands and the auto-resume   *)
(* timer of telegram_controller.py.                                        *)
(*                                                                         *)
(* Every monitor runs as asyncio tasks on one event loop: a step of the    *)
(* model is the code between two awaits that really suspend (a network     *)
(* fetch, a notification send, a sleep).  Fetch and send latencies are     *)
(* unbounded relative to the sleep intervals, so the sleeps are untimed:   *)
(* a sleeping task may wake at any later step.                             *)
(***************************************************************************)
EXTENDS Integers, Sequences, FiniteSets, TLC

\* ---------------------------------------------------------------- bounds
MaxTime == 3        \* the clock runs 0..MaxTime
MaxLoops == 2       \* renotify tasks alive at once for one monitor
MaxHist == 2        \* samples kept in one rolling window
MaxDelay == 1       \* longest pause duration, in clock units
MaxCallLen == 3     \* samples in a window handed to a single query
MaxCallWindow == 2  \* longest window length of a single query

\* ------------------------------------------------- monitor configuration
Kinds == {"spread", "vol", "bound", "pos", "iv"}

\* PriceTargetMonitorConfig: min_price, max_price and target_price are
\* Optional; a field is the empty set for None, else the set of its value.
MinPrice == 90
MaxPrice == 110
TargetPrice == 100
NoBounds == [min_price |-> {}, max_price |-> {}, target_price |-> {}]
BoundConfigs == {[min_price |-> a, max_price |-> b, target_price |-> c] :
                    a \in {{}, {MinPrice}}, b \in {{}, {MaxPrice}},
                    c \in {{}, {TargetPrice}}}

\* What main builds for a SYMBOLn entry of the environment: MIN and MAX are
\* optional and target_price is always None.
SymbolConfigs == {c \in BoundConfigs : c.target_price = {}}
\* main creates a PriceTargetMonitor for an entry only if it has a MIN or a
\* MAX.
AcceptedAlways(c) == TRUE
Accepted(c) == c.min_price # {} \/ c.max_price # {}
\* The monitors main schedules when the configuration asks for the kinds req
\* and the SYMBOLn entry is c.
Load(req, c) == {k \in req : k # "bound" \/ Accepted(c)}

\* The monitors main() builds depend on the configuration, and the
\* controller takes commands only with the Telegram settings present; a run
\* has one of these setups.  The composite IV monitor reads the window of the
\* volatility monitor, so it comes with it.
Setups == {[monitors |-> Load({k}, NoBounds), enabled |-> TRUE,
            config |-> NoBounds] : k \in {"spread", "vol", "pos"}}
          \cup {[monitors |-> Load({"bound"}, c), enabled |-> TRUE, config |-> c] :
                    c \in SymbolConfigs}
          \cup {[monitors |-> Load({"vol", "iv"}, NoBounds), enabled |-> FALSE,
                  config |-> NoBounds]}

\* The monitors pause_command and continue_command know about.
PauseTargets == {"spread", "vol", "bound", "pos"}
ContinueTargets == {"vol", "bound", "pos"}

\* Monitors whose tick and loop push into a rolling window.
Windowed == {"vol", "iv"}

SpreadThresholdPct == 2
VolThresholdPct == 1
IvThresholdPct == 3
BtcThresholdPct == 1
DiffThreshold == 3
TimeWindowSec == 1
IvTimeWindowSec == 1

\* ------------------------------------------------------- fetched values
SpreadData == {[ok |-> FALSE, spot |-> 0, fut |-> 0]}
              \cup {[ok |-> TRUE, spot |-> 100, fut |-> f] : f \in {101, 102, 103}}
VolData == {[ok |-> FALSE, price |-> 0]}
           \cup {[ok |-> TRUE, price |-> p] : p \in {100, 102}}
IvData == {[ok |-> FALSE, price |-> 0]}
          \cup {[ok |-> TRUE, price |-> p] : p \in {50, 52}}
BoundData == {[ok |-> FALSE, price |-> 0]}
             \cup {[ok |-> TRUE, price |-> p] : p \in {85, 95, 105, 115}}
\* One account, one symbol: what get_collateral / get_balances and
\* get_open_positions answered.  ok is FALSE when neither call answered.
PosData == {[ok |-> TRUE, collateral_ok |-> TRUE, positions_ok |-> TRUE,
             spot |-> 10, fut |-> f] : f \in {-8, -6}}
           \cup {[ok |-> FALSE, collateral_ok |-> FALSE, positions_ok |-> FALSE,
                  spot |-> 10, fut |-> -6],
                 [ok |-> TRUE, collateral_ok |-> TRUE, positions_ok |-> FALSE,
                  spot |-> 10, fut |-> -8]}

Data(k) == CASE k = "spread" -> SpreadData
             [] k = "vol" -> VolData
             [] k = "iv" -> IvData
             [] k = "bound" -> BoundData
             [] k = "pos" -> PosData

\* Where a _continuous_alert task stands: created and not yet run, asleep
\* (alert_interval), awaiting its fetch, awaiting send_alert.
LoopPcs == {"new", "wait", "fetch", "send"}

VARIABLES
    monitors,           \* the monitors of this run
    config,             \* PriceTargetMonitor.config (its three bounds)
    call,               \* a single call of a function: arguments and value
    enabled,            \* TelegramController.enabled
    now,                \* time.time()
    alerting,           \* self.alerting of each monitor
    stop_alerting,      \* self.stop_alerting
    monitoring_paused,  \* self.monitoring_paused
    target_reached,     \* PriceTargetMonitor.target_reached
    trigger_reason,     \* PriceTargetMonitor.trigger_reason
    price_history,      \* the rolling window of the vol and iv monitors
    tickpc,             \* start_monitoring: "sleep" or "fetch"
    loops,              \* _continuous_alert tasks: how many at each await
    resume_task,        \* TelegramController._resume_task
    timers,             \* _scheduled_resume tasks created and not yet ended
    muted,              \* history: paused by command, not yet resumed
    autoResumed,        \* history: resumed by the timer, no met tick since
    runStartsTick,      \* history: loops started since the last clear tick
    runStartsEval,      \* history: loops started since the last clear evaluation
    sendsSinceMute,     \* history: send_alert calls since the last pause
    last                \* history: the step just taken

flags == <<alerting, stop_alerting, monitoring_paused>>
latch == <<target_reached, trigger_reason>>
ctl == <<resume_task, timers, muted>>
hist == <<autoResumed, runStartsTick, runStartsEval, sendsSinceMute>>
vars == <<monitors, enabled, config, call, now, alerting, stop_alerting, monitoring_paused,
          target_reached, trigger_reason, price_history, tickpc, loops,
          resume_task, timers, muted, autoResumed, runStartsTick, runStartsEval,
          sendsSinceMute, last>>

NoTask == [state |-> "none", deadline |-> 0]

Abs(x) == IF x < 0 THEN -x ELSE x
Inc2(n) == IF n < 2 THEN n + 1 ELSE 2
LiveLoops(k) ==
    loops[k]["new"] + loops[k]["wait"] + loops[k]["fetch"] + loops[k]["send"]

NoCall == [fn |-> "none", done |-> TRUE]

InitWith(s) ==
    /\ monitors = s.monitors /\ enabled = s.enabled /\ config = s.config
    /\ now = 0
    /\ alerting = [k \in Kinds |-> FALSE]
    /\ stop_alerting = [k \in Kinds |-> FALSE]
    /\ monitoring_paused = [k \in Kinds |-> FALSE]
    /\ target_reached = FALSE
    /\ trigger_reason = ""
    /\ price_history = [k \in Windowed |-> <<>>]
    /\ tickpc = [k \in Kinds |-> "sleep"]
    /\ loops = [k \in Kinds |-> [p \in LoopPcs |-> 0]]
    /\ resume_task = NoTask
    /\ timers = 0
    /\ muted = FALSE
    /\ autoResumed = [k \in Kinds |-> FALSE]
    /\ runStartsTick = [k \in Kinds |-> 0]
    /\ runStartsEval = [k \in Kinds |-> 0]
    /\ sendsSinceMute = [k \in Kinds |-> 0]
    /\ last = [op |-> "init", k |-> "", res |-> "", ok |-> TRUE, started |-> FALSE,
               price |-> 0, chat |-> 0, cut |-> "none"]

Init == call = NoCall /\ \E s \in Setups : InitWith(s)

\* ------------------------------------------------------ pure functions
\* calculate_spread_pct as the sign and size of (fut - spot) / spot * 100,
\* compared with a threshold without dividing: for spot > 0,
\* abs(spread) >= thr  iff  abs(fut - spot) * 100 >= thr * spot.
\* A spot price <= 0 gives the spread 0.
SpreadAtLeast(spot, fut, thr) ==
    IF spot <= 0 THEN 0 >= thr
    ELSE Abs(fut - spot) * 100 >= thr * spot

SeqMin(s) == CHOOSE x \in {s[i] : i \in DOMAIN s} :
                 \A y \in {s[i] : i \in DOMAIN s} : x <= y
SeqMax(s) == CHOOSE x \in {s[i] : i \in DOMAIN s} :
                 \A y \in {s[i] : i \in DOMAIN s} : x >= y

InWindowExclusive(e, t, w) == t - e[1] < w
InWindow(e, t, w) == t - e[1] <= w
RetainedForever(e, t, w) == TRUE
Retained(e, t, w) == e[1] > t - (w * 2)

\* price_history after append and pruning to twice the window.
PushPrune(h, t, p, w) ==
    SelectSeq(Append(h, <<t, p>>), LAMBDA e : Retained(e, t, w))

\* calculate_volatility / calculate_iv_volatility: the window's min and max,
\* or no result with fewer than minPoints samples in the window or min <= 0.
\* volatility_pct is kept as the fraction num / den.
NoResult == [ok |-> FALSE, min |-> 0, max |-> 0, num |-> 0, den |-> 1]
CalcVolatilityAbs(h, t, w, minPoints) ==
    LET win == SelectSeq(h, LAMBDA e : InWindow(e, t, w))
        prices == [i \in DOMAIN win |-> win[i][2]]
    IN  IF Len(win) < minPoints THEN NoResult
        ELSE IF SeqMin(prices) > 0
             THEN [ok |-> TRUE, min |-> SeqMin(prices), max |-> SeqMax(prices),
                   num |-> SeqMax(prices) - SeqMin(prices), den |-> 1]
             ELSE NoResult
CalcVolatility(h, t, w, minPoints) ==
    LET win == SelectSeq(h, LAMBDA e : InWindow(e, t, w))
        prices == [i \in DOMAIN win |-> win[i][2]]
    IN  IF Len(win) < minPoints THEN NoResult
        ELSE IF SeqMin(prices) > 0
             THEN [ok |-> TRUE, min |-> SeqMin(prices), max |-> SeqMax(prices),
                   num |-> (SeqMax(prices) - SeqMin(prices)) * 100,
                   den |-> SeqMin(prices)]
             ELSE NoResult

PctAbove(r, thr) == r.num > thr * r.den
\* volatility_pct >= thr, for a result with den > 0.
PctAtLeast(r, thr) == r.num >= thr * r.den
\* A query that gave no result never triggers.
Exceeds(r, thr) == r.ok /\ PctAtLeast(r, thr)

BoundReasonTargetFirst(price) ==
    IF \E m \in config.min_price : price < m THEN "below_min"
    ELSE IF \E t \in config.target_price : price >= t THEN "above_target"
    ELSE IF \E m \in config.max_price : price > m THEN "above_max"
    ELSE ""
\* check_price_target: the first matching condition, "" when none matches.
BoundReason(price) ==
    IF \E m \in config.min_price : price < m THEN "below_min"
    ELSE IF \E m \in config.max_price : price > m THEN "above_max"
    ELSE IF \E t \in config.target_price : price >= t THEN "above_target"
    ELSE ""

\* PriceTargetMonitor._continuous_alert: the clearing test of the recorded
\* reason; no test at all for an empty reason.
BoundShouldStop(reason, price) ==
    \/ reason = "below_min" /\ \E m \in config.min_price : price >= m
    \/ reason = "above_max" /\ \E m \in config.max_price : price <= m
    \/ reason = "above_target" /\ \E t \in config.target_price : price < t

\* get_account_positions: a failed call leaves the quantity at 0.
SpotQty(d) == IF d.collateral_ok THEN d.spot ELSE 0
FuturesQty(d) == IF d.positions_ok THEN d.fut ELSE 0
NetExposure(d) == Abs(SpotQty(d) + FuturesQty(d))
ExposureAtLeast(spot_qty, futures_qty, threshold) ==
    Abs(spot_qty + futures_qty) >= threshold
\* net_exposure > threshold for one (account, symbol) pair.
ExposureAbove(spot_qty, futures_qty, threshold) ==
    Abs(spot_qty + futures_qty) > threshold
PosTriggered(d) == ExposureAbove(SpotQty(d), FuturesQty(d), DiffThreshold)
\* triggered_any after the loops over the accounts and their symbols.
TriggeredAny(pairs) ==
    \E i \in DOMAIN pairs :
        ExposureAbove(pairs[i][1], pairs[i][2], DiffThreshold)

\* ------------------------------------------------------ history notes
\* price is the price a bound evaluation fetched, 0 for every other step.
NoteP(k, op, res, ok, started, sent, price) ==
    /\ last' = [op |-> op, k |-> k, res |-> res, ok |-> ok, started |-> started,
                price |-> price, chat |-> 0, cut |-> "none"]
    /\ runStartsTick' = [runStartsTick EXCEPT ![k] =
           IF op = "tick" /\ res = "clear" THEN 0
           ELSE IF started THEN Inc2(@) ELSE @]
    /\ runStartsEval' = [runStartsEval EXCEPT ![k] =
           IF res = "clear" THEN 0
           ELSE IF started THEN Inc2(@) ELSE @]
    /\ sendsSinceMute' = [sendsSinceMute EXCEPT ![k] =
           IF sent /\ muted THEN Inc2(@) ELSE @]
    /\ autoResumed' = [autoResumed EXCEPT ![k] =
           IF op = "tick" /\ res = "met" THEN FALSE ELSE @]
Note(k, op, res, ok, started, sent) == NoteP(k, op, res, ok, started, sent, 0)

\* ----------------------------------------------------------- task steps
TickDone(k) == tickpc' = [tickpc EXCEPT ![k] = "sleep"]

\* asyncio.create_task(self._continuous_alert())
Spawn(k) ==
    /\ LiveLoops(k) < MaxLoops
    /\ loops' = [loops EXCEPT ![k]["new"] = @ + 1]

LoopMove(k, from, to) ==
    loops' = [loops EXCEPT ![k][from] = @ - 1, ![k][to] = @ + 1]
LoopExit(k, from) ==
    loops' = [loops EXCEPT ![k][from] = @ - 1]

\* The guard of every tick before it starts a renotify task:
\* if not self.alerting and not self.stop_alerting.
MayStartIgnoringAlerting(k) == ~stop_alerting[k]
MayStart(k) == ~alerting[k] /\ ~stop_alerting[k]

\* start_monitoring: one pass of the while loop up to the fetch.  A paused
\* monitor skips the check and sleeps again.  The pass follows a sleep of
\* check_interval, and a task created by the last pass has run by then.
TickBeginIgnoringPause(k) ==
    /\ k \in monitors
    /\ tickpc[k] = "sleep"
    /\ loops[k]["new"] = 0
    /\ tickpc' = [tickpc EXCEPT ![k] = "fetch"]
    /\ Note(k, "tick_begin", "", TRUE, FALSE, FALSE)
    /\ UNCHANGED <<monitors, enabled, config, call, now, flags, latch, price_history, loops, ctl>>
TickBegin(k) ==
    /\ k \in monitors
    /\ tickpc[k] = "sleep"
    /\ loops[k]["new"] = 0
    /\ IF monitoring_paused[k]
       THEN /\ tickpc' = tickpc
            /\ Note(k, "tick_skip", "", TRUE, FALSE, FALSE)
       ELSE /\ tickpc' = [tickpc EXCEPT ![k] = "fetch"]
            /\ Note(k, "tick_begin", "", TRUE, FALSE, FALSE)
    /\ UNCHANGED <<monitors, enabled, config, call, now, flags, latch, price_history, loops, ctl>>

\* check_price_spread after the two price fetches.
CheckPriceSpread(d) ==
    /\ "spread" \in monitors
    /\ tickpc["spread"] = "fetch"
    /\ TickDone("spread")
    /\ IF ~d.ok
       THEN /\ NoteP("spread", "tick", "nodata", FALSE, FALSE, FALSE, 0)
            /\ UNCHANGED <<flags, loops>>
       ELSE IF SpreadAtLeast(d.spot, d.fut, SpreadThresholdPct)
       THEN IF MayStart("spread")
            THEN /\ alerting' = [alerting EXCEPT !["spread"] = TRUE]
                 /\ stop_alerting' = [stop_alerting EXCEPT !["spread"] = FALSE]
                 /\ Spawn("spread")
                 /\ NoteP("spread", "tick", "met", TRUE, TRUE, FALSE, d.fut)
                 /\ UNCHANGED monitoring_paused
            ELSE /\ NoteP("spread", "tick", "met", TRUE, FALSE, FALSE, d.fut)
                 /\ UNCHANGED <<flags, loops>>
       ELSE /\ IF alerting["spread"]
               THEN /\ alerting' = [alerting EXCEPT !["spread"] = FALSE]
                    /\ stop_alerting' = [stop_alerting EXCEPT !["spread"] = FALSE]
               ELSE UNCHANGED <<alerting, stop_alerting>>
            /\ NoteP("spread", "tick", "clear", TRUE, FALSE, FALSE, d.fut)
            /\ UNCHANGED <<monitoring_paused, loops>>
    /\ UNCHANGED <<monitors, enabled, config, call, now, latch, price_history, ctl>>

\* _continuous_alert, all five classes: the while condition, tested when the
\* task first runs and after each sleep; a task that leaves the loop sets
\* alerting to False and ends.
LoopCheck(k, from) ==
    /\ k \in monitors
    /\ from \in {"new", "wait"}
    /\ loops[k][from] > 0
    /\ IF alerting[k] /\ ~stop_alerting[k]
       THEN /\ LoopMove(k, from, "fetch")
            /\ UNCHANGED alerting
       ELSE /\ LoopExit(k, from)
            /\ alerting' = [alerting EXCEPT ![k] = FALSE]
    /\ Note(k, "loop_check", "", TRUE, FALSE, FALSE)
    /\ UNCHANGED <<monitors, enabled, config, call, now, stop_alerting, monitoring_paused, latch,
                   price_history, tickpc, ctl>>

\* The recovery branch shared by the loops: alerting and stop_alerting are
\* reset and the task ends.
LoopRecovered(k) ==
    /\ alerting' = [alerting EXCEPT ![k] = FALSE]
    /\ stop_alerting' = [stop_alerting EXCEPT ![k] = FALSE]
    /\ LoopExit(k, "fetch")
    /\ UNCHANGED monitoring_paused

\* PriceMonitor._continuous_alert: one iteration from the fetched prices to
\* the call of send_alert, the sleep or the break.
ContinuousAlertSpread(d) ==
    /\ "spread" \in monitors
    /\ loops["spread"]["fetch"] > 0
    /\ IF ~d.ok
       THEN /\ LoopMove("spread", "fetch", "wait")
            /\ Note("spread", "loop", "nodata", FALSE, FALSE, FALSE)
            /\ UNCHANGED flags
       ELSE IF ~SpreadAtLeast(d.spot, d.fut, SpreadThresholdPct)
       THEN /\ LoopRecovered("spread")
            /\ Note("spread", "loop", "clear", TRUE, FALSE, FALSE)
       ELSE /\ LoopMove("spread", "fetch", "send")
            /\ Note("spread", "loop", "met", TRUE, FALSE, TRUE)
            /\ UNCHANGED flags
    /\ UNCHANGED <<monitors, enabled, config, call, now, latch, price_history, tickpc, ctl>>

LoopSendDoneEndsOnFailure(k, r) ==
    /\ k \in monitors
    /\ loops[k]["send"] > 0
    /\ IF r = "ok"
       THEN LoopMove(k, "send", "wait") /\ UNCHANGED alerting
       ELSE /\ LoopExit(k, "send")
            /\ alerting' = [alerting EXCEPT ![k] = FALSE]
    /\ Note(k, "send_done", r, TRUE, FALSE, FALSE)
    /\ UNCHANGED <<monitors, enabled, config, call, now, stop_alerting, monitoring_paused, latch,
                   price_history, tickpc, ctl>>
\* send_alert returned ("ok", "fail") or raised ("raise"): the result is
\* logged and the task sleeps alert_interval.
LoopSendDone(k, r) ==
    /\ k \in monitors
    /\ loops[k]["send"] > 0
    /\ LoopMove(k, "send", "wait")
    /\ Note(k, "send_done", r, TRUE, FALSE, FALSE)
    /\ UNCHANGED <<monitors, enabled, config, call, now, flags, latch, price_history, tickpc, ctl>>

\* check_volatility after the price fetch: the sample is pushed, the window
\* pruned and queried; a tick below the threshold changes nothing.
CheckVolatility(d) ==
    /\ "vol" \in monitors
    /\ tickpc["vol"] = "fetch"
    /\ TickDone("vol")
    /\ IF ~d.ok
       THEN /\ Note("vol", "tick", "nodata", FALSE, FALSE, FALSE)
            /\ UNCHANGED <<flags, loops, price_history>>
       ELSE LET h == PushPrune(price_history["vol"], now, d.price, TimeWindowSec)
                r == CalcVolatility(h, now, TimeWindowSec, 1)
            IN  /\ Len(h) <= MaxHist
                /\ price_history' = [price_history EXCEPT !["vol"] = h]
                /\ IF ~r.ok
                   THEN /\ Note("vol", "tick", "none", TRUE, FALSE, FALSE)
                        /\ UNCHANGED <<flags, loops>>
                   ELSE IF PctAtLeast(r, VolThresholdPct)
                   THEN IF ~monitoring_paused["vol"] /\ MayStart("vol")
                        THEN /\ alerting' = [alerting EXCEPT !["vol"] = TRUE]
                             /\ stop_alerting' =
                                    [stop_alerting EXCEPT !["vol"] = FALSE]
                             /\ Spawn("vol")
                             /\ Note("vol", "tick", "met", TRUE, TRUE, FALSE)
                             /\ UNCHANGED monitoring_paused
                        ELSE /\ Note("vol", "tick", "met", TRUE, FALSE, FALSE)
                             /\ UNCHANGED <<flags, loops>>
                   ELSE /\ Note("vol", "tick", "clear", TRUE, FALSE, FALSE)
                        /\ UNCHANGED <<flags, loops>>
    /\ UNCHANGED <<monitors, enabled, config, call, now, latch, ctl>>

\* alert_registry is None in every monitor (nothing assigns it), so the
\* is_muted test of the volatility and IV loops never skips a send.
RegistryMuted(k) == FALSE

\* PriceVolatilityMonitor._continuous_alert: one iteration.
ContinuousAlertVol(d) ==
    /\ "vol" \in monitors
    /\ loops["vol"]["fetch"] > 0
    /\ IF ~d.ok
       THEN /\ LoopMove("vol", "fetch", "wait")
            /\ Note("vol", "loop", "nodata", FALSE, FALSE, FALSE)
            /\ UNCHANGED <<flags, price_history>>
       ELSE LET h == PushPrune(price_history["vol"], now, d.price, TimeWindowSec)
                r == CalcVolatility(h, now, TimeWindowSec, 1)
            IN  /\ Len(h) <= MaxHist
                /\ price_history' = [price_history EXCEPT !["vol"] = h]
                /\ IF ~r.ok
                   THEN /\ LoopMove("vol", "fetch", "wait")
                        /\ Note("vol", "loop", "none", TRUE, FALSE, FALSE)
                        /\ UNCHANGED flags
                   ELSE IF ~PctAtLeast(r, VolThresholdPct)
                   THEN /\ LoopRecovered("vol")
                        /\ Note("vol", "loop", "clear", TRUE, FALSE, FALSE)
                   ELSE IF RegistryMuted("vol")
                   THEN /\ LoopMove("vol", "fetch", "wait")
                        /\ Note("vol", "loop", "met", TRUE, FALSE, FALSE)
                        /\ UNCHANGED flags
                   ELSE /\ LoopMove("vol", "fetch", "send")
                        /\ Note("vol", "loop", "met", TRUE, FALSE, TRUE)
                        /\ UNCHANGED flags
    /\ UNCHANGED <<monitors, enabled, config, call, now, latch, tickpc, ctl>>

\* check_price_target after the price fetch.
CheckPriceTarget(d) ==
    /\ "bound" \in monitors
    /\ tickpc["bound"] = "fetch"
    /\ TickDone("bound")
    /\ IF ~d.ok
       THEN /\ Note("bound", "tick", "nodata", FALSE, FALSE, FALSE)
            /\ UNCHANGED <<flags, latch, loops>>
       ELSE IF BoundReason(d.price) # ""
       THEN IF ~target_reached
            THEN /\ target_reached' = TRUE
                 /\ trigger_reason' = BoundReason(d.price)
                 /\ IF MayStart("bound")
                    THEN /\ alerting' = [alerting EXCEPT !["bound"] = TRUE]
                         /\ stop_alerting' =
                                [stop_alerting EXCEPT !["bound"] = FALSE]
                         /\ Spawn("bound")
                         /\ NoteP("bound", "tick", "met", TRUE, TRUE, FALSE, d.price)
                         /\ UNCHANGED monitoring_paused
                    ELSE /\ NoteP("bound", "tick", "met", TRUE, FALSE, FALSE, d.price)
                         /\ UNCHANGED <<flags, loops>>
            ELSE /\ NoteP("bound", "tick", "met", TRUE, FALSE, FALSE, d.price)
                 /\ UNCHANGED <<flags, latch, loops>>
       ELSE /\ target_reached' = FALSE
            /\ trigger_reason' = ""
            /\ NoteP("bound", "tick", "clear", TRUE, FALSE, FALSE, d.price)
            /\ UNCHANGED <<flags, loops>>
    /\ UNCHANGED <<monitors, enabled, config, call, now, price_history, ctl>>

\* PriceTargetMonitor._continuous_alert: one iteration.  An iteration that
\* sends although the price violates no bound is noted as "stale".
ContinuousAlertBound(d) ==
    /\ "bound" \in monitors
    /\ loops["bound"]["fetch"] > 0
    /\ IF ~d.ok
       THEN /\ LoopMove("bound", "fetch", "wait")
            /\ Note("bound", "loop", "nodata", FALSE, FALSE, FALSE)
            /\ UNCHANGED <<flags, latch>>
       ELSE IF BoundShouldStop(trigger_reason, d.price)
       THEN /\ LoopRecovered("bound")
            /\ target_reached' = FALSE
            /\ trigger_reason' = ""
            /\ NoteP("bound", "loop", "clear", TRUE, FALSE, FALSE, d.price)
       ELSE /\ LoopMove("bound", "fetch", "send")
            /\ NoteP("bound", "loop",
                     IF BoundReason(d.price) = "" THEN "stale" ELSE "met",
                     TRUE, FALSE, TRUE, d.price)
            /\ UNCHANGED <<flags, latch>>
    /\ UNCHANGED <<monitors, enabled, config, call, now, price_history, tickpc, ctl>>

\* check_positions after get_account_positions: a failed call counts as a
\* quantity of 0 and the exposure is judged all the same.
CheckPositions(d) ==
    /\ "pos" \in monitors
    /\ tickpc["pos"] = "fetch"
    /\ TickDone("pos")
    /\ IF PosTriggered(d)
       THEN IF MayStart("pos")
            THEN /\ alerting' = [alerting EXCEPT !["pos"] = TRUE]
                 /\ stop_alerting' = [stop_alerting EXCEPT !["pos"] = FALSE]
                 /\ Spawn("pos")
                 /\ Note("pos", "tick", "met", d.ok, TRUE, FALSE)
                 /\ UNCHANGED monitoring_paused
            ELSE /\ Note("pos", "tick", "met", d.ok, FALSE, FALSE)
                 /\ UNCHANGED <<flags, loops>>
       ELSE /\ IF alerting["pos"]
               THEN /\ alerting' = [alerting EXCEPT !["pos"] = FALSE]
                    /\ stop_alerting' = [stop_alerting EXCEPT !["pos"] = FALSE]
               ELSE UNCHANGED <<alerting, stop_alerting>>
            /\ Note("pos", "tick", "clear", d.ok, FALSE, FALSE)
            /\ UNCHANGED <<monitoring_paused, loops>>
    /\ UNCHANGED <<monitors, enabled, config, call, now, latch, price_history, ctl>>

\* PositionMonitor._continuous_alert: one iteration.
ContinuousAlertPos(d) ==
    /\ "pos" \in monitors
    /\ loops["pos"]["fetch"] > 0
    /\ IF ~PosTriggered(d)
       THEN /\ LoopRecovered("pos")
            /\ Note("pos", "loop", "clear", d.ok, FALSE, FALSE)
       ELSE /\ LoopMove("pos", "fetch", "send")
            /\ Note("pos", "loop", "met", d.ok, FALSE, TRUE)
            /\ UNCHANGED flags
    /\ UNCHANGED <<monitors, enabled, config, call, now, latch, price_history, tickpc, ctl>>

\* get_btc_volatility: the window of the volatility monitor, queried now.
BtcVolatility ==
    IF "vol" \in monitors
    THEN CalcVolatility(price_history["vol"], now, TimeWindowSec, 1)
    ELSE NoResult

IvTriggeredEither(h) ==
    LET r == CalcVolatility(h, now, IvTimeWindowSec, 2)
    IN  \/ Exceeds(r, IvThresholdPct)
        \/ Exceeds(BtcVolatility, BtcThresholdPct)
\* The composite condition of check_iv and of the IV loop.
IvTriggered(h) ==
    LET r == CalcVolatility(h, now, IvTimeWindowSec, 2)
    IN  /\ Exceeds(r, IvThresholdPct)
        /\ Exceeds(BtcVolatility, BtcThresholdPct)

\* check_iv after get_dvol.
CheckIv(d) ==
    /\ "iv" \in monitors
    /\ tickpc["iv"] = "fetch"
    /\ TickDone("iv")
    /\ IF ~d.ok
       THEN /\ Note("iv", "tick", "nodata", FALSE, FALSE, FALSE)
            /\ UNCHANGED <<flags, loops, price_history>>
       ELSE LET h == PushPrune(price_history["iv"], now, d.price, IvTimeWindowSec)
            IN  /\ Len(h) <= MaxHist
                /\ price_history' = [price_history EXCEPT !["iv"] = h]
                /\ IF IvTriggered(h)
                   THEN IF MayStart("iv")
                        THEN /\ alerting' = [alerting EXCEPT !["iv"] = TRUE]
                             /\ stop_alerting' =
                                    [stop_alerting EXCEPT !["iv"] = FALSE]
                             /\ Spawn("iv")
                             /\ Note("iv", "tick", "met", TRUE, TRUE, FALSE)
                             /\ UNCHANGED monitoring_paused
                        ELSE /\ Note("iv", "tick", "met", TRUE, FALSE, FALSE)
                             /\ UNCHANGED <<flags, loops>>
                   ELSE /\ IF alerting["iv"]
                           THEN /\ alerting' = [alerting EXCEPT !["iv"] = FALSE]
                                /\ stop_alerting' =
                                       [stop_alerting EXCEPT !["iv"] = FALSE]
                           ELSE UNCHANGED <<alerting, stop_alerting>>
                        /\ Note("iv", "tick", "clear", TRUE, FALSE, FALSE)
                        /\ UNCHANGED <<monitoring_paused, loops>>
    /\ UNCHANGED <<monitors, enabled, config, call, now, latch, ctl>>

\* DeribitIVMonitor._continuous_alert: one iteration.
ContinuousAlertIv(d) ==
    /\ "iv" \in monitors
    /\ loops["iv"]["fetch"] > 0
    /\ IF ~d.ok
       THEN /\ LoopMove("iv", "fetch", "wait")
            /\ Note("iv", "loop", "nodata", FALSE, FALSE, FALSE)
            /\ UNCHANGED <<flags, price_history>>
       ELSE LET h == PushPrune(price_history["iv"], now, d.price, IvTimeWindowSec)
            IN  /\ Len(h) <= MaxHist
                /\ price_history' = [price_history EXCEPT !["iv"] = h]
                /\ IF ~IvTriggered(h)
                   THEN /\ LoopRecovered("iv")
                        /\ Note("iv", "loop", "clear", TRUE, FALSE, FALSE)
                   ELSE IF RegistryMuted("iv")
                   THEN /\ LoopMove("iv", "fetch", "wait")
                        /\ Note("iv", "loop", "met", TRUE, FALSE, FALSE)
                        /\ UNCHANGED flags
                   ELSE /\ LoopMove("iv", "fetch", "send")
                        /\ Note("iv", "loop", "met", TRUE, FALSE, TRUE)
                        /\ UNCHANGED flags
    /\ UNCHANGED <<monitors, enabled, config, call, now, latch, tickpc, ctl>>

\* start_monitoring, all five classes: an exception that escapes the check
\* (the awaited fetch raised) is logged by the except branch of the while
\* loop, which sleeps check_interval and goes round again.
TickRaisedEndsTask(k) ==
    /\ k \in monitors
    /\ tickpc[k] = "fetch"
    /\ tickpc' = [tickpc EXCEPT ![k] = "ended"]
    /\ Note(k, "tick", "raised", FALSE, FALSE, FALSE)
    /\ UNCHANGED <<monitors, enabled, config, call, now, flags, latch, price_history, loops, ctl>>
TickRaised(k) ==
    /\ k \in monitors
    /\ tickpc[k] = "fetch"
    /\ TickDone(k)
    /\ Note(k, "tick", "raised", FALSE, FALSE, FALSE)
    /\ UNCHANGED <<monitors, enabled, config, call, now, flags, latch, price_history, loops, ctl>>

\* _continuous_alert, all five classes: an exception that escapes the
\* iteration (the awaited fetch raised) is logged by the outer except branch,
\* which sleeps alert_interval; the while loop goes on.
LoopRaised(k) ==
    /\ k \in monitors
    /\ loops[k]["fetch"] > 0
    /\ LoopMove(k, "fetch", "wait")
    /\ Note(k, "loop", "raised", FALSE, FALSE, FALSE)
    /\ UNCHANGED <<monitors, enabled, config, call, now, flags, latch, price_history, tickpc, ctl>>

\* ------------------------------------------------------- control channel
\* chat is the chat a command came from (0 for a step that is no command),
\* cut the state of the resume task a command cancelled.
NoteCmd(op, chat, res, ok, cut) ==
    last' = [op |-> op, k |-> "", res |-> res, ok |-> ok, started |-> FALSE,
             price |-> 0, chat |-> chat, cut |-> cut]
NoteCtl(op) == NoteCmd(op, 0, "", TRUE, "none")

\* The chat a command comes from: the configured chat or another one.
ChatId == 1
Chats == {ChatId, 2}
AuthorizedAny(chat) == TRUE
\* str(update.effective_chat.id) == str(self.chat_id)
Authorized(chat) == chat = ChatId

\* The first argument of /pause: none, <digits> with an optional unit, or
\* text the pattern ^(\d+)(s|m|h|d)?$ does not match.
NoArg == [kind |-> "none", value |-> 0, unit |-> ""]
BadArg == [kind |-> "bad", value |-> 0, unit |-> ""]
Units == {"", "s", "m", "h", "d"}
DurationArgs(units) ==
    {[kind |-> "duration", value |-> v, unit |-> u] :
        v \in 0..MaxDelay, u \in units}
WellFormedAlways(arg) == TRUE
WellFormed(arg) == arg.kind # "bad"
\* A number without a unit counts minutes.
UnitSeconds(u) ==
    CASE u = "s" -> 1 [] u = "m" -> 60 [] u = "h" -> 3600 [] u = "d" -> 86400
      [] u = "" -> 60
Seconds(arg) ==
    IF arg.kind = "duration" THEN arg.value * UnitSeconds(arg.unit) ELSE 0

\* Task.cancel() on the stored handle: a task that has not ended gets
\* CancelledError at its await and ends; the result is the number of tasks
\* ended.
Live(t) == t.state \in {"sleeping", "firing"}
CancelledIfSleeping(t) == IF t.state = "sleeping" THEN 1 ELSE 0
Cancelled(t) == IF Live(t) THEN 1 ELSE 0

\* A command that was turned away with a reply: nothing but the reply
\* happens.
TurnedAway(op, chat, res) ==
    /\ NoteCmd(op, chat, res, TRUE, "none")
    /\ UNCHANGED <<monitors, enabled, config, call, now, flags, latch, price_history, tickpc, loops,
                   ctl, hist>>

\* pause_command past its two early returns: a pending resume task is
\* cancelled, every monitor the controller holds is stopped, the spread
\* monitor without monitoring_paused; the resume task is created after the
\* reply, if the duration is more than 0 seconds.
Pause(chat, arg, replyOk) ==
    /\ alerting' = [k \in Kinds |->
           IF k \in monitors \cap PauseTargets THEN FALSE ELSE alerting[k]]
    /\ stop_alerting' = [k \in Kinds |->
           IF k \in monitors \cap PauseTargets THEN TRUE ELSE stop_alerting[k]]
    /\ monitoring_paused' = [k \in Kinds |->
           IF k \in monitors \cap (PauseTargets \ {"spread"})
           THEN TRUE ELSE monitoring_paused[k]]
    /\ resume_task' = IF Seconds(arg) > 0 /\ replyOk
                      THEN [state |-> "sleeping", deadline |-> now + Seconds(arg)]
                      ELSE NoTask
    /\ timers' = (timers - Cancelled(resume_task))
                    + (IF Seconds(arg) > 0 /\ replyOk THEN 1 ELSE 0)
    /\ muted' = TRUE
    /\ autoResumed' = [k \in Kinds |-> FALSE]
    /\ runStartsTick' = [k \in Kinds |-> 0]
    /\ runStartsEval' = [k \in Kinds |-> 0]
    /\ sendsSinceMute' = [k \in Kinds |-> 0]
    /\ NoteCmd("pause", chat, arg.kind, replyOk, resume_task.state)
    /\ UNCHANGED <<monitors, enabled, config, call, now, latch, price_history, tickpc, loops>>

\* pause_command.  A command from another chat and an argument that does not
\* match are answered and dropped.
PauseCommand(chat, arg, replyOk) ==
    /\ enabled
    /\ monitors \cap PauseTargets # {}
    /\ IF ~Authorized(chat) THEN TurnedAway("pause_denied", chat, arg.kind)
       ELSE IF ~WellFormed(arg) THEN TurnedAway("pause_badformat", chat, arg.kind)
       ELSE Pause(chat, arg, replyOk)

\* The assignments of continue_command after the cancel of the resume task.
Resume ==
    /\ monitoring_paused' = [k \in Kinds |->
           IF k \in monitors \cap ContinueTargets
           THEN FALSE ELSE monitoring_paused[k]]
    /\ stop_alerting' = [k \in Kinds |->
           IF k \in monitors \cap ContinueTargets
           THEN FALSE ELSE stop_alerting[k]]
    /\ resume_task' = NoTask
    /\ muted' = FALSE
    /\ sendsSinceMute' = [k \in Kinds |-> 0]

\* continue_command.
ContinueCommand(chat) ==
    /\ enabled
    /\ IF ~Authorized(chat) THEN TurnedAway("continue_denied", chat, "")
       ELSE /\ Resume
            /\ timers' = timers - Cancelled(resume_task)
            /\ autoResumed' = [k \in Kinds |-> FALSE]
            /\ NoteCmd("continue", chat, "", TRUE, resume_task.state)
            /\ UNCHANGED <<monitors, enabled, config, call, now, alerting, latch,
                           price_history, tickpc, loops, runStartsTick, runStartsEval>>

\* _scheduled_resume: the sleep is over and the task awaits its reply.
ResumeWake ==
    /\ resume_task.state = "sleeping"
    /\ now >= resume_task.deadline
    /\ resume_task' = [resume_task EXCEPT !.state = "firing"]
    /\ NoteCtl("resume_wake")
    /\ UNCHANGED <<monitors, enabled, config, call, now, flags, latch, price_history, tickpc, loops,
                   timers, muted, hist>>

\* _scheduled_resume after the reply: continue_command runs with the update
\* of the pause, which cancels the task itself and lets it end at its next
\* await; or the reply raised and ended the task with its handle still
\* stored.
ResumeContinue(replyOk) ==
    /\ resume_task.state = "firing"
    /\ timers' = timers - 1
    /\ IF replyOk
       THEN /\ Resume
            /\ autoResumed' = [k \in Kinds |-> k \in monitors \cap PauseTargets]
            /\ NoteCtl("auto_resume")
       ELSE /\ resume_task' = [resume_task EXCEPT !.state = "dead"]
            /\ NoteCtl("resume_failed")
            /\ UNCHANGED <<stop_alerting, monitoring_paused, muted, autoResumed,
                           sendsSinceMute>>
    /\ UNCHANGED <<monitors, enabled, config, call, now, alerting, latch, price_history, tickpc, loops,
                   runStartsTick, runStartsEval>>

StatusCommandFetching(chat) ==
    /\ enabled
    /\ tickpc' = [k \in Kinds |-> IF k \in monitors THEN "fetch" ELSE tickpc[k]]
    /\ NoteCmd("status", chat, "", TRUE, "none")
    /\ UNCHANGED <<monitors, enabled, config, call, now, flags, latch, price_history, loops, ctl,
                   hist>>
\* status_command from the configured chat: the reply is built from the
\* monitors' configuration and flags.
StatusCommand(chat) ==
    /\ enabled
    /\ IF ~Authorized(chat) THEN TurnedAway("status_denied", chat, "")
       ELSE /\ NoteCmd("status", chat, "", TRUE, "none")
            /\ UNCHANGED <<monitors, enabled, config, call, now, flags, latch,
                           price_history, tickpc, loops, ctl, hist>>

\* The clock.
Advance ==
    /\ now < MaxTime
    /\ now' = now + 1
    /\ NoteCtl("advance")
    /\ UNCHANGED <<monitors, enabled, config, call, flags, latch, price_history, tickpc, loops, ctl,
                   hist>>

\* The /pause commands of a run come from the configured chat, without an
\* argument or with a number of seconds.
PauseArgs == {NoArg} \cup DurationArgs({"s"})

Next ==
    \/ \E k \in Kinds : TickBegin(k)
    \/ \E d \in SpreadData : CheckPriceSpread(d)
    \/ \E k \in Kinds, from \in {"new", "wait"} : LoopCheck(k, from)
    \/ \E d \in SpreadData : ContinuousAlertSpread(d)
    \/ \E d \in VolData : CheckVolatility(d)
    \/ \E d \in VolData : ContinuousAlertVol(d)
    \/ \E d \in BoundData : CheckPriceTarget(d)
    \/ \E d \in BoundData : ContinuousAlertBound(d)
    \/ \E d \in PosData : CheckPositions(d)
    \/ \E d \in PosData : ContinuousAlertPos(d)
    \/ \E d \in IvData : CheckIv(d)
    \/ \E d \in IvData : ContinuousAlertIv(d)
    \/ \E k \in Kinds, r \in {"ok", "fail", "raise"} : LoopSendDone(k, r)
    \/ \E k \in Kinds : TickRaised(k)
    \/ \E k \in Kinds : LoopRaised(k)
    \/ \E a \in PauseArgs, r \in BOOLEAN : PauseCommand(ChatId, a, r)
    \/ ContinueCommand(ChatId)
    \/ ResumeWake
    \/ \E r \in BOOLEAN : ResumeContinue(r)
    \/ StatusCommand(ChatId)
    \/ Advance

Spec == Init /\ [][Next]_vars

\* Two monitors under one controller, as main builds them when both are
\* configured: the spread monitor and the position monitor.  The clock
\* stands still and /pause comes without a duration.
PairMonitors == {"spread", "pos"}
PairInit ==
    /\ call = NoCall
    /\ InitWith([monitors |-> PairMonitors, enabled |-> TRUE, config |-> NoBounds])
PairNext ==
    \/ \E k \in PairMonitors : TickBegin(k)
    \/ \E d \in SpreadData : CheckPriceSpread(d)
    \/ \E k \in PairMonitors, from \in {"new", "wait"} : LoopCheck(k, from)
    \/ \E d \in SpreadData : ContinuousAlertSpread(d)
    \/ \E d \in PosData : CheckPositions(d)
    \/ \E d \in PosData : ContinuousAlertPos(d)
    \/ \E k \in PairMonitors, r \in {"ok", "fail", "raise"} : LoopSendDone(k, r)
    \/ PauseCommand(ChatId, NoArg, TRUE)
    \/ ContinueCommand(ChatId)
PairSpec == PairInit /\ [][PairNext]_vars

\* One bound monitor under the controller, with commands from any chat and
\* every form of the /pause argument.
CtlConfig == [min_price |-> {MinPrice}, max_price |-> {MaxPrice}, target_price |-> {}]
CtlArgs == {NoArg, BadArg} \cup DurationArgs(Units)
CtlInit ==
    /\ call = NoCall
    /\ InitWith([monitors |-> Load({"bound"}, CtlConfig), enabled |-> TRUE,
                 config |-> CtlConfig])
CtlNext ==
    \/ TickBegin("bound")
    \/ \E d \in BoundData : CheckPriceTarget(d)
    \/ \E from \in {"new", "wait"} : LoopCheck("bound", from)
    \/ \E d \in BoundData : ContinuousAlertBound(d)
    \/ \E r \in {"ok", "fail", "raise"} : LoopSendDone("bound", r)
    \/ \E c \in Chats, a \in CtlArgs, r \in BOOLEAN : PauseCommand(c, a, r)
    \/ \E c \in Chats : ContinueCommand(c)
    \/ ResumeWake
    \/ \E r \in BOOLEAN : ResumeContinue(r)
    \/ \E c \in Chats : StatusCommand(c)
    \/ Advance
CtlSpec == CtlInit /\ [][CtlNext]_vars

\* ------------------------------------------------------------ scheduling
\* The event loop runs every task that is ready: the monitor's polling task,
\* its _continuous_alert tasks and the resume task each take their next step
\* once their await is over.  Commands and the clock are the environment's.
TickStep(k) ==
    \/ TickBegin(k)
    \/ k = "spread" /\ \E d \in SpreadData : CheckPriceSpread(d)
    \/ k = "vol" /\ \E d \in VolData : CheckVolatility(d)
    \/ k = "bound" /\ \E d \in BoundData : CheckPriceTarget(d)
    \/ k = "pos" /\ \E d \in PosData : CheckPositions(d)
    \/ k = "iv" /\ \E d \in IvData : CheckIv(d)
    \/ TickRaised(k)

LoopStep(k) ==
    \/ \E from \in {"new", "wait"} : LoopCheck(k, from)
    \/ k = "spread" /\ \E d \in SpreadData : ContinuousAlertSpread(d)
    \/ k = "vol" /\ \E d \in VolData : ContinuousAlertVol(d)
    \/ k = "bound" /\ \E d \in BoundData : ContinuousAlertBound(d)
    \/ k = "pos" /\ \E d \in PosData : ContinuousAlertPos(d)
    \/ k = "iv" /\ \E d \in IvData : ContinuousAlertIv(d)
    \/ \E r \in {"ok", "fail", "raise"} : LoopSendDone(k, r)
    \/ LoopRaised(k)

ResumeStep == ResumeWake \/ \E r \in BOOLEAN : ResumeContinue(r)

Fairness ==
    /\ \A k \in Kinds : WF_vars(TickStep(k)) /\ WF_vars(LoopStep(k))
    /\ WF_vars(ResumeStep)

FairSpec == Spec /\ Fairness

\* ------------------------------------------------------- single calls
\* A window as the monitors build it: timestamps in order, none after the
\* time of the query.
\* Prices of the single calls, in tenths (994, 1000 and 1005 stand for 99.4,
\* 100 and 100.5); a window draws its prices from one of the two sets.
CallPrices == {{0, 100, 101, 102}, {994, 1000, 1005}}
Samples(ps) == (0..MaxTime) \X ps
Windows == UNION {[1..n -> Samples(ps)] : n \in 0..MaxCallLen, ps \in CallPrices}
Ordered(h, t) ==
    /\ \A i \in DOMAIN h : h[i][1] <= t
    /\ \A i, j \in DOMAIN h : i < j => h[i][1] <= h[j][1]

\* calculate_volatility (minPoints 1) and calculate_iv_volatility
\* (minPoints 2) called at time t on the window h.
VolatilityCalls ==
    {[fn |-> "calculate_volatility", done |-> FALSE, h |-> h, t |-> t, w |-> w,
      minPoints |-> n, out |-> NoResult, triggered |-> FALSE,
      factor |-> 1, scaledDone |-> FALSE, scaledOut |-> NoResult,
      scaledTriggered |-> FALSE] :
        h \in Windows, t \in 0..MaxTime, w \in 1..MaxCallWindow, n \in 1..2}

\* The quantities get_account_positions returned for the (account, symbol)
\* pairs of one check_positions pass: spot 10 and a short futures position.
MaxCallPairs == 2
Quantities == {10} \X {-6, -7, -8, -13, -14}
PositionCalls ==
    {[fn |-> "check_positions", done |-> FALSE, pairs |-> p,
      triggered |-> FALSE] :
        p \in UNION {[1..n -> Quantities] : n \in 0..MaxCallPairs}}

\* What one price source answers: it raised, it gave no price, or a price.
Raised == -1
NoPrice == 0
Outcomes == {Raised, NoPrice, 100, 101}
\* None unless the source gave a price.
Yield(o) == IF o > 0 THEN o ELSE NoPrice

\* get_spot_price / get_futures_price on the answers <<WebSocket cache,
\* Backpack get_depth, Backpack get_ticker, Binance>>: an exception of a
\* Backpack call leads straight to Binance.
GetSpotPrice(src) ==
    IF src[1] > 0 THEN src[1]
    ELSE IF src[2] = Raised THEN Yield(src[4])
    ELSE IF src[2] > 0 THEN src[2]
    ELSE IF src[3] = Raised THEN Yield(src[4])
    ELSE IF src[3] > 0 THEN src[3]
    ELSE Yield(src[4])
\* PriceVolatilityMonitor.get_current_price on <<WebSocket cache, HTTP>>,
\* used by check_volatility.
GetCurrentPrice(src) == IF src[1] > 0 THEN src[1] ELSE Yield(src[2])
\* PriceVolatilityMonitor.get_price on the same answers, used by
\* _continuous_alert: the HTTP client only.
GetPrice(src) == Yield(src[2])
\* PriceTargetMonitor.get_price on the answers of the categories tried in
\* order: the first one with a ticker list.
GetPriceTarget(src) ==
    IF \E i \in DOMAIN src : src[i] > 0
    THEN src[CHOOSE i \in DOMAIN src :
                 src[i] > 0 /\ \A j \in DOMAIN src : src[j] > 0 => i <= j]
    ELSE NoPrice
\* The fetch a monitor's poll tick or renotify loop makes.
Fetch(kind, path, src) ==
    CASE kind = "spread" -> GetSpotPrice(src)
      [] kind = "vol" -> IF path = "tick" THEN GetCurrentPrice(src)
                         ELSE GetPrice(src)
      [] kind = "bound" -> GetPriceTarget(src)

SourceCount(kind) ==
    CASE kind = "spread" -> 4 [] kind = "vol" -> 2 [] kind = "bound" -> 3
\* The WebSocket cache is a dictionary lookup and never raises.
FetchCalls ==
    {[fn |-> "fetch", done |-> FALSE, kind |-> c[1], path |-> p, src |-> c[2],
      out |-> NoPrice] :
        c \in UNION {{<<k, s>> : s \in {x \in [1..SourceCount(k) -> Outcomes] :
                                           k = "bound" \/ x[1] # Raised}} :
                         k \in {"spread", "vol", "bound"}},
        p \in {"tick", "loop"}}

\* One check_price_target evaluation of a fetched price under a
\* PriceTargetMonitorConfig with any of its three bounds set.
CallBoundPrices == {85, 90, 95, 100, 105, 110, 115}
TargetCalls ==
    {[fn |-> "check_price_target", done |-> FALSE, price |-> p,
      triggered |-> FALSE, reason |-> ""] : p \in CallBoundPrices}
\* One start of main with the kinds req configured and the SYMBOLn entry
\* symbol.
MainCalls ==
    {[fn |-> "main", done |-> FALSE, req |-> r, symbol |-> c, tasks |-> {}] :
        r \in SUBSET Kinds, c \in SymbolConfigs}

\* PriceMonitor.price_history over the poll ticks of one run: empty at
\* construction; n counts the ticks that fetched both prices, and the entry
\* of such a tick is its number.
MaxHistory == 100
MaxSpreadTicks == 102
HistoryCalls ==
    {[fn |-> "check_price_spread", done |-> FALSE, h |-> <<>>, n |-> 0,
      fetched |-> TRUE]}

\* One AlertManager over its calls of send_alert.  clock is the event
\* loop's time(), a monotonic clock whose origin is not defined: the first
\* call may come at any reading.  last_alert_time is the dictionary's
\* 'telegram' entry, empty while the key is missing; flying holds the
\* current_time of the calls awaiting send_message; delivered is the history
\* of the deliveries that succeeded, each with the current_time of its call.
MaxAlertClock == 4
MaxFlying == 2
Cooldowns == {0, 2}
AlertCalls ==
    {[fn |-> "send_alert", done |-> FALSE, clock |-> t, last_alert_time |-> {},
      flying |-> <<>>, delivered |-> {}, verdict |-> "none", cooldown |-> 0,
      at |-> 0] : t \in 0..1}

CallInit ==
    \/ /\ InitWith([monitors |-> {}, enabled |-> FALSE, config |-> NoBounds])
       /\ call \in {c \in VolatilityCalls : Ordered(c.h, c.t)} \cup PositionCalls
                     \cup FetchCalls \cup MainCalls \cup HistoryCalls
                     \cup AlertCalls
    \/ /\ \E c \in BoundConfigs :
              InitWith([monitors |-> {}, enabled |-> FALSE, config |-> c])
       /\ call \in TargetCalls

Evaluate ==
    /\ ~call.done
    /\ call.fn = "calculate_volatility"
    /\ LET r == CalcVolatility(call.h, call.t, call.w, call.minPoints)
       IN  call' = [call EXCEPT !.done = TRUE, !.out = r,
                                !.triggered = Exceeds(r, VolThresholdPct)]
    /\ UNCHANGED <<monitors, enabled, config, now, flags, latch, price_history,
                   tickpc, loops, ctl, hist, last>>

\* The same call on the same window with every price multiplied by f.
Factors == {2, 10}
ScaleWindow(h, f) == [i \in DOMAIN h |-> <<h[i][1], h[i][2] * f>>]
EvaluateScaled(f) ==
    /\ call.done
    /\ call.fn = "calculate_volatility"
    /\ ~call.scaledDone
    /\ LET r == CalcVolatility(ScaleWindow(call.h, f), call.t, call.w,
                               call.minPoints)
       IN  call' = [call EXCEPT !.scaledDone = TRUE, !.factor = f,
                                !.scaledOut = r,
                                !.scaledTriggered = Exceeds(r, VolThresholdPct)]
    /\ UNCHANGED <<monitors, enabled, config, now, flags, latch, price_history,
                   tickpc, loops, ctl, hist, last>>

\* The threshold test of check_positions over the pairs of one pass.
EvaluatePositions ==
    /\ ~call.done
    /\ call.fn = "check_positions"
    /\ call' = [call EXCEPT !.done = TRUE,
                            !.triggered = TriggeredAny(call.pairs)]
    /\ UNCHANGED <<monitors, enabled, config, now, flags, latch, price_history,
                   tickpc, loops, ctl, hist, last>>

\* One fetch of a tick or of a loop iteration.
EvaluateFetch ==
    /\ ~call.done
    /\ call.fn = "fetch"
    /\ call' = [call EXCEPT !.done = TRUE,
                            !.out = Fetch(call.kind, call.path, call.src)]
    /\ UNCHANGED <<monitors, enabled, config, now, flags, latch, price_history,
                   tickpc, loops, ctl, hist, last>>

\* The condition chain of check_price_target on the fetched price.
EvaluateTarget ==
    /\ ~call.done
    /\ call.fn = "check_price_target"
    /\ call' = [call EXCEPT !.done = TRUE,
                            !.reason = BoundReason(call.price),
                            !.triggered = (BoundReason(call.price) # "")]
    /\ UNCHANGED <<monitors, enabled, config, now, flags, latch, price_history,
                   tickpc, loops, ctl, hist, last>>

\* main up to the creation of the monitoring tasks.
LoadMonitors ==
    /\ ~call.done
    /\ call.fn = "main"
    /\ call' = [call EXCEPT !.done = TRUE,
                            !.tasks = Load(call.req, call.symbol)]
    /\ UNCHANGED <<monitors, enabled, config, now, flags, latch, price_history,
                   tickpc, loops, ctl, hist, last>>

KeepAll(h) == h
\* if len(self.price_history) > self.max_history: self.price_history.pop(0)
TrimHistory(h) == IF Len(h) > MaxHistory THEN Tail(h) ELSE h
\* The history part of one check_price_spread: a tick without both prices
\* returns before the append.
RecordSpread(fetched) ==
    /\ call.fn = "check_price_spread"
    /\ ~call.done
    /\ IF fetched
       THEN call' = [call EXCEPT !.h = TrimHistory(Append(call.h, call.n + 1)),
                                 !.n = call.n + 1, !.fetched = TRUE,
                                 !.done = (call.n + 1 >= MaxSpreadTicks)]
       ELSE call' = [call EXCEPT !.fetched = FALSE]
    /\ UNCHANGED <<monitors, enabled, config, now, flags, latch, price_history,
                   tickpc, loops, ctl, hist, last>>

\* self.last_alert_time.get('telegram', 0)
LastTime(d) == IF d = {} THEN 0 ELSE CHOOSE t \in d : TRUE
\* The cooldown test of send_alert at current_time.
InCooldown(d, current_time, cooldown) ==
    cooldown > 0 /\ current_time - LastTime(d) < cooldown

\* send_alert up to its await: current_time is read, and the call returns []
\* in the cooldown or goes on to send_message.
SendAlertBegin(cooldown) ==
    /\ call.fn = "send_alert"
    /\ Len(call.flying) < MaxFlying
    /\ IF InCooldown(call.last_alert_time, call.clock, cooldown)
       THEN call' = [call EXCEPT !.verdict = "suppressed", !.cooldown = cooldown,
                                 !.at = call.clock]
       ELSE call' = [call EXCEPT !.verdict = "sending", !.cooldown = cooldown,
                                 !.at = call.clock,
                                 !.flying = Append(call.flying, call.clock)]
    /\ UNCHANGED <<monitors, enabled, config, now, flags, latch, price_history,
                   tickpc, loops, ctl, hist, last>>

\* send_message answered the i-th waiting call: a delivery stores the
\* call's current_time, a failure stores nothing.
SendAlertEnd(i, result) ==
    /\ call.fn = "send_alert"
    /\ i \in DOMAIN call.flying
    /\ LET t == call.flying[i]
           rest == SubSeq(call.flying, 1, i - 1)
                      \o SubSeq(call.flying, i + 1, Len(call.flying))
       IN  IF result
           THEN call' = [call EXCEPT !.flying = rest, !.last_alert_time = {t},
                                     !.delivered = @ \cup {t},
                                     !.verdict = "delivered"]
           ELSE call' = [call EXCEPT !.flying = rest, !.verdict = "failed"]
    /\ UNCHANGED <<monitors, enabled, config, now, flags, latch, price_history,
                   tickpc, loops, ctl, hist, last>>

\* The event loop's clock.
AlertClock ==
    /\ call.fn = "send_alert"
    /\ call.clock < MaxAlertClock
    /\ call' = [call EXCEPT !.clock = @ + 1, !.verdict = "none"]
    /\ UNCHANGED <<monitors, enabled, config, now, flags, latch, price_history,
                   tickpc, loops, ctl, hist, last>>

CallNext ==
    \/ \E c \in Cooldowns : SendAlertBegin(c)
    \/ \E i \in 1..MaxFlying, r \in BOOLEAN : SendAlertEnd(i, r)
    \/ AlertClock
    \/ \E f \in BOOLEAN : RecordSpread(f)
    \/ Evaluate
    \/ EvaluateTarget
    \/ LoadMonitors
    \/ EvaluateFetch
    \/ \E f \in Factors : EvaluateScaled(f)
    \/ EvaluatePositions

CallSpec == CallInit /\ [][CallNext]_vars

\* ================================================================ claims
TickOf(k) == last'.op = "tick" /\ last'.k = k
TickStartOf(k) == last'.op \in {"tick_skip", "tick_begin"} /\ last'.k = k
RuleStepOf(k) ==
    /\ last'.op \in {"tick_skip", "tick_begin", "tick", "loop_check", "loop",
                     "send_done"}
    /\ last'.k = k

\* C1: at most one renotify loop task is live for a rule in every reachable
\* state.  Violated: a task asleep when alerting is reset and set again (by
\* a clear tick then a met tick, or by pause then continue) finds its while
\* condition true again and runs beside the newly started task.
C1_AtMostOneLoop == \A k \in monitors : LiveLoops(k) <= 1

\* C2, as claimed: within a run of poll ticks that all report the condition
\* met, with no pause in between, a renotify loop is started at most once.
\* Violated: a loop iteration that fetches a value below the threshold
\* between two met ticks ends the loop, and the next met tick starts another.
C2_OncePerTickRun == \A k \in monitors : runStartsTick[k] <= 1

\* C2, amended: within a run of evaluations, poll ticks and loop iterations
\* alike, that all report the condition met, with no pause in between, a
\* renotify loop is started at most once.
C2_OncePerEvalRun == \A k \in monitors : runStartsEval[k] <= 1
C2_Witness ==
    /\ last.op = "tick" /\ last.res = "met" /\ ~last.started
    /\ runStartsEval[last.k] = 1
    /\ alerting[last.k]
    /\ LiveLoops(last.k) = 1

\* C3: a tick that reports the condition not met on a Firing rule clears the
\* firing flag itself, and a tick that reports it met never clears it.
\* Violated: check_volatility and check_price_target leave alerting set on a
\* tick below the threshold; only their loops reset it.
C3_ClearTickLeavesFiring ==
    [][\A k \in monitors :
          /\ (TickOf(k) /\ last'.res = "clear" /\ alerting[k]) => ~alerting'[k]
          /\ (TickOf(k) /\ last'.res = "met" /\ alerting[k]) => alerting'[k]]_vars

\* C4: no tick starts a renotify loop while the rule is muted.  Violated for
\* the spread monitor: a loop iteration in flight at the pause sees the spread
\* recovered and resets stop_alerting, so the next met tick starts a loop.
C4_NoStartWhileMuted ==
    [][\A k \in monitors : (muted /\ TickOf(k)) => ~last'.started]_vars

\* C5: after a pause at most one notification, the one in progress, is sent
\* for a rule while the mute lasts.
C5_OneSendAfterMute == \A k \in monitors : muted => sendsSinceMute[k] <= 1

\* C6: after a timed mute has run out, the next tick that reports the
\* condition met starts the renotify loop.  Violated: continue_command does
\* not reset the spread monitor's stop_alerting, and the bound monitor keeps
\* target_reached from before the pause.
C6_FiresAfterTimedMute ==
    [][\A k \in monitors :
          (autoResumed[k] /\ TickOf(k) /\ last'.res = "met") => last'.started]_vars

\* C7: after continue (by command or by the timer) no monitor keeps its stop
\* flag or its paused flag.  Violated: continue_command skips the spread
\* monitor.
C7_ContinueClearsMute ==
    [][last'.op \in {"continue", "auto_resume"} =>
          \A k \in monitors : ~stop_alerting'[k] /\ ~monitoring_paused'[k]]_vars

C9_TasksLeaveMuteState ==
    [][\A k \in monitors :
          RuleStepOf(k) =>
              /\ stop_alerting'[k] = stop_alerting[k]
              /\ monitoring_paused'[k] = monitoring_paused[k]]_vars

\* C10: a tick or loop iteration whose fetch failed changes neither the
\* firing flag nor the mute state nor the rolling window.  Violated: when both position
\* calls fail the quantities count as 0, the exposure as 0, and a Firing
\* position rule is reset.
C10_NoDataNoChange ==
    [][\A k \in monitors :
          (last'.op \in {"tick", "loop"} /\ last'.k = k /\ ~last'.ok) =>
              /\ alerting'[k] = alerting[k]
              /\ stop_alerting'[k] = stop_alerting[k]
              /\ monitoring_paused'[k] = monitoring_paused[k]
              /\ price_history' = price_history]_vars

\* What the last step was, read in the state it led to.
SendDone(k) == last.op = "send_done" /\ last.k = k
Attempt(k) == last.op = "loop" /\ last.k = k /\ last.res \in {"met", "stale"}
NotMetSeen(k) ==
    /\ last.op \in {"tick", "loop"} /\ last.k = k
    /\ last.res \in {"clear", "nodata", "none"}
Excused(k) ==
    /\ last.op \in {"tick", "loop"} /\ last.k = k
    /\ last.res \in {"met", "nodata", "none"} \/ ~last.ok

\* C11: under fair scheduling, once a notification attempt of an unmuted rule
\* is over, another attempt follows, unless the rule is muted or one of its
\* evaluations fails to fetch or reports the condition not met.  Violated for
\* the spread monitor: continue_command leaves stop_alerting set, so after a
\* pause and a continue the task in flight sends once more and ends, and no
\* tick starts another although the condition stays met.
C11_RenotifyContinues ==
    \A k \in Kinds :
        (SendDone(k) /\ ~muted) ~> (Attempt(k) \/ muted \/ NotMetSeen(k))

\* C12: under fair scheduling a Firing rule returns to Normal with no
\* renotify task left, unless an evaluation still reports the condition met
\* or fails to fetch.  Violated for the bound monitor: the tick that sees the
\* recovery first empties trigger_reason and leaves alerting set, after which
\* the loop has no clearing test left and keeps sending.
C12_RecoveryEndsFiring ==
    \A k \in Kinds :
        (k \in monitors /\ alerting[k]) ~>
            ((~alerting[k] /\ LiveLoops(k) = 0) \/ Excused(k))

\* C13: a notification that fails, by a failure result or by an exception,
\* ends no renotify task and changes no flag of the rule: the task goes to
\* its alert_interval sleep, from where its while condition is tested again.
C13_SendFailureKeepsLoop ==
    [][\A k \in monitors :
          (last'.op = "send_done" /\ last'.k = k /\ last'.res \in {"fail", "raise"}) =>
              /\ alerting'[k] = alerting[k]
              /\ stop_alerting'[k] = stop_alerting[k]
              /\ LiveLoops(k)' = LiveLoops(k)
              /\ loops'[k]["wait"] = loops[k]["wait"] + 1
              /\ loops'[k]["send"] = loops[k]["send"] - 1]_vars
C13_Witness ==
    /\ last.op = "send_done" /\ last.res = "raise"
    /\ alerting[last.k] /\ ~stop_alerting[last.k]
    /\ loops[last.k]["wait"] = 1 /\ LiveLoops(last.k) = 1

\* An evaluation of the bound rule, by tick or loop, on a price for which
\* BoundReason gives r.
BoundEvalOf(r) ==
    /\ last'.k = "bound" /\ last'.op \in {"tick", "loop"} /\ last'.ok
    /\ BoundReason(last'.price) = r

\* C14: a bound rule Firing with reason below_min stays Firing, with its
\* reason, when an evaluation finds the price above max_price.  Violated: the
\* loop's test for below_min is price >= min_price, which a price above
\* max_price passes, so the loop resets the rule and ends.
C14_OtherBoundKeepsFiring ==
    [][("bound" \in monitors /\ alerting["bound"] /\ trigger_reason = "below_min"
          /\ BoundEvalOf("above_max")) =>
             alerting'["bound"] /\ target_reached' /\ trigger_reason' = "below_min"]_vars

\* C15: while the bound rule is Firing its trigger_reason does not change,
\* and it leaves Firing only by the loop's clearing test or by a pause.
\* Violated: a tick inside the bounds empties trigger_reason and leaves
\* alerting set, and a later tick outside the bounds records a new reason.
C15_ReasonKeptWhileFiring ==
    [][("bound" \in monitors /\ alerting["bound"]) =>
          IF alerting'["bound"]
          THEN trigger_reason' = trigger_reason
          ELSE \/ last'.op = "pause"
               \/ last'.k = "bound" /\ last'.op = "loop" /\ last'.res = "clear"]_vars

\* The three conditions of a bound rule, each false for an unset bound.
BelowMin(p) == \E m \in config.min_price : p < m
AboveMax(p) == \E m \in config.max_price : p > m
AtTarget(p) == \E t \in config.target_price : p >= t

\* C16: a bound evaluation of price p finds the condition met exactly when
\* one of the three conditions holds, and its reason is below_min whenever
\* p < min_price, above_max only if that fails and p > max_price,
\* above_target only if both fail and p >= target_price, and empty
\* otherwise; an unset bound never matches.
C16_FirstMatchWins ==
    (call.fn = "check_price_target" /\ call.done) =>
        LET p == call.price
        IN  /\ call.triggered <=> (BelowMin(p) \/ AboveMax(p) \/ AtTarget(p))
            /\ (call.reason = "below_min") <=> BelowMin(p)
            /\ (call.reason = "above_max") <=> (~BelowMin(p) /\ AboveMax(p))
            /\ (call.reason = "above_target") <=>
                   (~BelowMin(p) /\ ~AboveMax(p) /\ AtTarget(p))
            /\ (call.reason = "") <=>
                   ~(BelowMin(p) \/ AboveMax(p) \/ AtTarget(p))
\* A price above max_price and above target_price, both set, reported as
\* above_max.
C16_Witness ==
    /\ call.fn = "check_price_target" /\ call.done
    /\ config.max_price # {} /\ config.target_price # {}
    /\ AboveMax(call.price) /\ AtTarget(call.price)
    /\ call.reason = "above_max"

\* The window length of a windowed monitor.
WindowOf(k) == IF k = "vol" THEN TimeWindowSec ELSE IvTimeWindowSec

\* C17: in every rolling window each retained sample is less than twice the
\* window length older than the latest push, whichever task pushed.
C17_RetentionTwoWindows ==
    \A k \in Windowed :
        LET h == price_history[k]
        IN  \A i \in DOMAIN h : h[Len(h)][1] - h[i][1] < 2 * WindowOf(k)
\* A push by the renotify loop at time 2 that kept the sample of time 1.
C17_Witness ==
    /\ last.op = "loop" /\ last.k = "vol" /\ last.ok
    /\ now >= 2 * TimeWindowSec
    /\ Len(price_history["vol"]) = 2
    /\ price_history["vol"][2][1] = now
    /\ price_history["vol"][1][1] = now - TimeWindowSec

\* The samples of call.h inside the window of the query, and their prices.
InQuery == {i \in DOMAIN call.h : call.t - call.h[i][1] <= call.w}
QueryPrices == {call.h[i][2] : i \in InQuery}

\* C18: a window query gives min and max over exactly the samples with
\* now - timestamp <= window_duration and the percentage (max - min) / min *
\* 100; it gives no result, and the rule does not trigger, when the smallest
\* of them is <= 0 (or when fewer samples than the function asks for lie in
\* the window).
C18_QueryOverWindow ==
    (call.fn = "calculate_volatility" /\ call.done) =>
        IF Cardinality(InQuery) < call.minPoints \/ \E p \in QueryPrices : p <= 0
        THEN ~call.out.ok /\ ~call.triggered
        ELSE /\ call.out.ok
             /\ call.out.min \in QueryPrices
             /\ call.out.max \in QueryPrices
             /\ \A p \in QueryPrices : call.out.min <= p /\ p <= call.out.max
             /\ call.out.num = (call.out.max - call.out.min) * 100
             /\ call.out.den = call.out.min
\* A query with one sample on the boundary of the window, which sets the
\* maximum, and one outside it.
C18_Witness ==
    /\ call.fn = "calculate_volatility" /\ call.done /\ call.out.ok
    /\ Len(call.h) = 3
    /\ call.t - call.h[1][1] > call.w
    /\ call.t - call.h[2][1] = call.w
    /\ call.h[2][2] = 102 /\ call.h[3][2] = 100 /\ call.h[1][2] = 0
    /\ call.out.min = 100 /\ call.out.max = 102

\* How many samples of a monitor's window lie inside the window now.
InWindowNow(k) ==
    Cardinality({i \in DOMAIN price_history[k] :
                    now - price_history[k][i][1] <= WindowOf(k)})

\* C19: an evaluation that got a volatility value out of a window had at
\* least 2 samples inside it: the window of a volatility rule, and both
\* windows of a composite IV rule that found its condition met.  Violated:
\* calculate_volatility has no test of the number of samples, so a window
\* holding only the sample just pushed gives min = max and a volatility of 0.
C19_TwoSamplesNeeded ==
    /\ (last.k = "vol" /\ last.op \in {"tick", "loop"} /\ last.res \in {"met", "clear"})
           => InWindowNow("vol") >= 2
    /\ (last.k = "iv" /\ last.op \in {"tick", "loop"} /\ last.res = "met")
           => InWindowNow("iv") >= 2 /\ InWindowNow("vol") >= 2

\* C20: a spread tick that got both prices reports the condition met exactly
\* when abs((futures - spot) / spot * 100) >= threshold_pct, the boundary
\* included (spot is 100, so futures 102 is the boundary of 2%); a tick with
\* futures 103 on a rule that is Normal and not muted makes it Firing and
\* starts its loop; a tick with futures 101 leaves the rule Normal.
\* Violated in its second part: after /pause and /continue the stop flag of
\* the spread monitor is still set, and a tick with futures 103 reports the
\* condition met without starting anything.
C20_SpreadRule ==
    [][(last'.op = "tick" /\ last'.k = "spread" /\ last'.ok) =>
          /\ (last'.res = "met") <=>
                 (Abs(last'.price - 100) * 100 >= SpreadThresholdPct * 100)
          /\ (last'.price = 103 /\ ~alerting["spread"] /\ ~muted)
                 => alerting'["spread"] /\ last'.started
          /\ last'.price = 101 => ~alerting'["spread"]]_vars

\* C21: a volatility evaluation finds its condition met exactly when the
\* window holds a sample, its smallest price is positive and
\* (max - min) / min * 100 >= threshold, a percentage equal to the threshold
\* included; samples 100 at 0, 100.5 at 1 and 99.4 at 2, all inside the
\* window, give min 99.4, max 100.5 and the condition met.
C21_VolatilityRule ==
    (call.fn = "calculate_volatility" /\ call.done /\ call.minPoints = 1) =>
        /\ call.triggered <=>
               /\ QueryPrices # {}
               /\ \A p \in QueryPrices : p > 0
               /\ \E lo, hi \in QueryPrices :
                      /\ \A p \in QueryPrices : lo <= p /\ p <= hi
                      /\ (hi - lo) * 100 >= VolThresholdPct * lo
        /\ (call.h = <<<<0, 1000>>, <<1, 1005>>, <<2, 994>>>>
                /\ call.t = 2 /\ call.w = 2)
               => call.out.min = 994 /\ call.out.max = 1005 /\ call.triggered
\* The scenario's query, and a query whose percentage equals the threshold.
C21_Witness ==
    /\ call.fn = "calculate_volatility" /\ call.done /\ call.minPoints = 1
    /\ \/ call.h = <<<<0, 1000>>, <<1, 1005>>, <<2, 994>>>>
             /\ call.t = 2 /\ call.w = 2 /\ call.triggered
       \/ call.h = <<<<1, 101>>, <<2, 100>>>>
             /\ call.t = 2 /\ call.w = 1 /\ call.triggered

\* C22: a check_positions pass finds the condition met exactly when some
\* (account, symbol) pair has abs(spot_qty + futures_qty) > diff_threshold,
\* strictly: with threshold 3, spot 10 and futures -8 (net 2) is not met,
\* futures -6 (net 4) is met and futures -7 (net 3, equal to the
\* threshold) is not met.
C22_ExposureRule ==
    (call.fn = "check_positions" /\ call.done) =>
        /\ call.triggered <=>
               \E i \in DOMAIN call.pairs :
                   Abs(call.pairs[i][1] + call.pairs[i][2]) > DiffThreshold
        /\ call.pairs = << <<10, -8>> >> => ~call.triggered
        /\ call.pairs = << <<10, -6>> >> => call.triggered
        /\ call.pairs = << <<10, -7>> >> => ~call.triggered
\* A pass over two pairs of which only the second exceeds the threshold.
C22_Witness ==
    /\ call.fn = "check_positions" /\ call.done
    /\ call.pairs = << <<10, -8>>, <<10, -6>> >>
    /\ call.triggered

\* After a step, the window of monitor k holds at least two samples, none of
\* them <= 0, with (max - min) / min * 100 >= thr.
WindowMet(k, thr) ==
    LET idx == {i \in DOMAIN price_history'[k] :
                   now' - price_history'[k][i][1] <= WindowOf(k)}
        ps == {price_history'[k][i][2] : i \in idx}
    IN  /\ Cardinality(idx) >= 2
        /\ \A p \in ps : p > 0
        /\ \E lo, hi \in ps :
               /\ \A p \in ps : lo <= p /\ p <= hi
               /\ (hi - lo) * 100 >= thr * lo

\* C23: a composite IV rule becomes Firing only in a check_iv evaluation
\* after which both the IV window's percentage is >= iv_threshold and the
\* BTC window's percentage is >= btc_threshold; a window below its threshold
\* or without a result never lets the rule become Firing.
C23_BothWindowsNeeded ==
    [][("iv" \in monitors /\ ~alerting["iv"] /\ alerting'["iv"]) =>
          /\ last'.k = "iv" /\ last'.op = "tick" /\ last'.started
          /\ WindowMet("iv", IvThresholdPct)
          /\ WindowMet("vol", BtcThresholdPct)]_vars
\* A check_iv evaluation has just made the rule Firing.
C23_Witness ==
    /\ last.k = "iv" /\ last.op = "tick" /\ last.started
    /\ alerting["iv"] /\ LiveLoops("iv") = 1

\* C24: a window query on a window whose prices were all multiplied by the
\* same positive factor gives a result exactly when the query on the
\* original window does, with the same percentage, and the same trigger
\* decision.
C24_ScaleInvariant ==
    (call.fn = "calculate_volatility" /\ call.scaledDone) =>
        /\ call.scaledOut.ok = call.out.ok
        /\ call.scaledOut.num * call.out.den = call.out.num * call.scaledOut.den
        /\ call.scaledTriggered = call.triggered
\* The scenario's window of C21 scaled by 10: the percentage is 1100 / 994
\* both times and the condition is met both times.
C24_Witness ==
    /\ call.fn = "calculate_volatility" /\ call.scaledDone
    /\ call.h = <<<<0, 1000>>, <<1, 1005>>, <<2, 994>>>>
    /\ call.t = 2 /\ call.w = 2 /\ call.factor = 10
    /\ call.out.ok /\ call.scaledOut.min = 9940 /\ call.scaledTriggered

\* The evaluations of monitor k in progress: tasks that have started their
\* data fetch and not yet applied the predicate to its answer.
Evaluating(k) == (IF tickpc[k] = "fetch" THEN 1 ELSE 0) + loops[k]["fetch"]

\* C25: at most one evaluation of a rule is in progress in every reachable
\* state.  Violated: the poll task and the renotify task of a monitor are
\* separate asyncio tasks, each suspended in its own price request, and
\* nothing keeps one from starting its request while the other waits.
C25_NoOverlappingEvaluations == \A k \in monitors : Evaluating(k) <= 1

\* C26: a poll tick that finds the condition met while the rule is Firing
\* starts no renotify loop and leaves the firing flag, the stop and paused
\* flags and, for a bound rule, the recorded trigger reason as they were.
\* Violated for the bound rule: a not-met tick has emptied the reason and
\* reset the latch of a rule that is still Firing, and the next met tick
\* records the reason of whatever bound the price violates now.
C26_MetTickWhileFiringNoOp ==
    [][\A k \in monitors :
          (TickOf(k) /\ last'.res = "met" /\ alerting[k]) =>
              /\ ~last'.started
              /\ loops'[k] = loops[k]
              /\ alerting'[k]
              /\ stop_alerting'[k] = stop_alerting[k]
              /\ monitoring_paused'[k] = monitoring_paused[k]
              /\ k = "bound" => trigger_reason' = trigger_reason]_vars

\* The monitors of which a step changed the firing, stop or paused flag or
\* the renotify tasks.
Touched ==
    {k \in monitors : \/ alerting'[k] # alerting[k]
                      \/ stop_alerting'[k] # stop_alerting[k]
                      \/ monitoring_paused'[k] # monitoring_paused[k]
                      \/ loops'[k] # loops[k]}

\* C27: a pause or continue command changes the firing flag, the mute flags
\* and the renotify tasks of at most one rule.  Violated: the commands name
\* no rule, and pause_command and continue_command assign the flags of
\* every monitor the controller holds.
C27_ControlTouchesOneRule ==
    [][last'.op \in {"pause", "continue", "auto_resume"}
          => Cardinality(Touched) <= 1]_vars

\* C28: a status command changes no flag, latch, recorded reason, rolling
\* window or timer, and puts no task into a price fetch.
C28_StatusReadsOnly ==
    [][last'.op = "status" =>
          UNCHANGED <<alerting, stop_alerting, monitoring_paused, target_reached,
                      trigger_reason, price_history, tickpc, loops, resume_task>>]_vars
\* A status command answered while the volatility rule is Firing with two
\* samples in its window.
C28_Witness ==
    /\ last.op = "status"
    /\ "vol" \in monitors /\ alerting["vol"]
    /\ Len(price_history["vol"]) = 2

\* The priority chain of a fetch, source by source: the WebSocket cache, the
\* exchange's HTTP API (for Backpack the order book, then the ticker when the
\* order book came without a price) and Binance for the spread monitor; the
\* WebSocket cache and the HTTP API for the volatility monitor; the
\* categories in order for the bound monitor.
Chain(c) ==
    CASE c.kind = "spread" ->
             <<c.src[1],
               IF c.src[2] > 0 THEN c.src[2]
               ELSE IF c.src[2] = NoPrice THEN Yield(c.src[3]) ELSE NoPrice,
               c.src[4]>>
      [] c.kind = "vol" -> c.src
      [] c.kind = "bound" -> c.src

\* C29: a fetch returns the price of the first source of its chain that
\* gave one, and no data only when no source of the chain gave a price.
\* Violated: the volatility monitor's renotify loop fetches with get_price,
\* which asks the HTTP API only; the WebSocket cache, first in the chain of
\* the poll tick, is not consulted.
C29_FirstSourceWins ==
    (call.fn = "fetch" /\ call.done) =>
        LET ch == Chain(call)
        IN  IF \E i \in DOMAIN ch : ch[i] > 0
            THEN \E i \in DOMAIN ch :
                     /\ ch[i] > 0 /\ call.out = ch[i]
                     /\ \A j \in DOMAIN ch : ch[j] > 0 => i <= j
            ELSE call.out = NoPrice

Untouched(j) ==
    /\ tickpc'[j] = tickpc[j] /\ loops'[j] = loops[j]
    /\ alerting'[j] = alerting[j] /\ stop_alerting'[j] = stop_alerting[j]
    /\ monitoring_paused'[j] = monitoring_paused[j]
    /\ j \in Windowed => price_history'[j] = price_history[j]

\* C31: an exception raised in a rule's poll tick leaves the rule's polling
\* task asleep for check_interval, ready for its next tick; an exception
\* raised in a renotify-loop iteration leaves that loop task alive, asleep for
\* alert_interval; either way the flags of the rule and the tasks, flags and
\* windows of every other rule are as they were.
C31_ExceptionAbsorbed ==
    [][\A k \in monitors :
          (last'.k = k /\ last'.res = "raised") =>
              /\ last'.op = "tick" =>
                     /\ tickpc[k] = "fetch" /\ tickpc'[k] = "sleep"
                     /\ loops'[k] = loops[k]
              /\ last'.op = "loop" =>
                     /\ tickpc'[k] = tickpc[k]
                     /\ loops'[k]["wait"] = loops[k]["wait"] + 1
                     /\ loops'[k]["fetch"] = loops[k]["fetch"] - 1
              /\ alerting'[k] = alerting[k]
              /\ stop_alerting'[k] = stop_alerting[k]
              /\ monitoring_paused'[k] = monitoring_paused[k]
              /\ \A j \in monitors \ {k} : Untouched(j)]_vars
\* A poll tick of the volatility rule has just raised while the IV rule is
\* Firing with its loop alive.
C31_Witness ==
    /\ last.k = "vol" /\ last.op = "tick" /\ last.res = "raised"
    /\ tickpc["vol"] = "sleep"
    /\ "iv" \in monitors /\ alerting["iv"] /\ LiveLoops("iv") = 1

\* C32: a pause command with a duration argument schedules an auto-resume
\* for that duration, whatever the accepted value, and only a pause without
\* an argument leaves no timer.  Violated: /pause 0 (or 0s, 0m, 0h, 0d) is
\* accepted, stops every monitor and creates no resume task.
C32_DurationSchedulesResume ==
    [][(last'.op = "pause" /\ last'.ok) =>
          IF last'.res = "duration"
          THEN resume_task'.state = "sleeping" /\ timers' = 1
          ELSE resume_task' = NoTask /\ timers' = 0]_vars

NewTimer(t) == \E a \in CtlArgs : t = [state |-> "sleeping", deadline |-> now + Seconds(a)]
\* C33: at most one _scheduled_resume task is alive in every state, it is
\* the one the handle names, and after a pause or continue command has been
\* processed no task created before it is alive: the handle is empty or names
\* the task this pause created, also when the old task was already firing; an
\* auto-resume comes only from the firing task of the latest pause.
C33_OneTimer ==
    /\ [](timers <= 1 /\ (timers = 1 <=> Live(resume_task)))
    /\ [][/\ last'.op \in {"pause", "continue"} =>
                 \/ resume_task' = NoTask /\ timers' = 0
                 \/ last'.op = "pause" /\ NewTimer(resume_task') /\ timers' = 1
          /\ last'.op = "auto_resume" =>
                 /\ resume_task.state = "firing" /\ muted
                 /\ timers' = 0]_vars
\* A pause with a duration has just replaced a timer that was firing.
C33_Witness ==
    /\ last.op = "pause" /\ last.res = "duration" /\ last.cut = "firing"
    /\ resume_task.state = "sleeping" /\ resume_task.deadline = now + 1
    /\ timers = 1

\* C36: a pause command whose argument does not match the pattern changes no
\* flag of any monitor and leaves the resume task as it was, a sleeping one
\* still scheduled.
C36_BadFormatChangesNothing ==
    [][(last'.chat = ChatId /\ last'.res = "bad") =>
          /\ last'.op = "pause_badformat"
          /\ UNCHANGED <<flags, latch, resume_task, timers, tickpc, loops>>]_vars
\* A malformed pause has just been answered while the rule is Firing and a
\* resume task sleeps.
C36_Witness ==
    /\ last.op = "pause_badformat"
    /\ resume_task.state = "sleeping" /\ timers = 1

\* C37: a pause, continue or status command from a chat other than the
\* configured one changes no firing, stop or paused flag and neither cancels
\* nor creates a resume task.
C37_OtherChatChangesNothing ==
    [][last'.chat \notin {0, ChatId} =>
          /\ last'.op \in {"pause_denied", "continue_denied", "status_denied"}
          /\ UNCHANGED <<flags, latch, resume_task, timers, tickpc, loops>>]_vars
\* A continue from another chat has just been answered while the monitor is
\* paused and a resume task sleeps.
C37_Witness ==
    /\ last.op = "continue_denied"
    /\ monitoring_paused["bound"] /\ stop_alerting["bound"]
    /\ resume_task.state = "sleeping"

\* A renotify iteration of rule k has just handed a message to send_alert.
Sends(k) ==
    /\ last'.k = k /\ last'.op = "loop"
    /\ loops'[k]["send"] = loops[k]["send"] + 1

\* C34: a renotify iteration sends a notification only if the value it
\* fetched itself meets the rule's trigger condition; for a bound rule the
\* fetched price is below the minimum, above the maximum or at the target.
\* Violated: a poll tick inside the bounds empties trigger_reason and leaves
\* the loop running, and the loop, with no clearing test for an empty
\* reason, goes on sending at prices inside the bounds.
C34_SendOnlyWhenMet ==
    [][\A k \in monitors :
          Sends(k) =>
              /\ last'.res = "met"
              /\ k = "bound" => BoundReason(last'.price) # ""]_vars

\* C35: a bound rule that is not muted and has its condition recorded as
\* triggered is Firing, with a renotify task alive.  Violated: pause_command
\* resets alerting and leaves target_reached set; after the continue the
\* ticks find the latch set and start no loop while the price stays outside
\* the bounds.
C35_LatchMeansFiring ==
    [][(TickOf("bound") /\ target_reached'
           /\ ~monitoring_paused'["bound"] /\ ~stop_alerting'["bound"] /\ ~muted')
          => alerting'["bound"]]_vars

\* C38: after any sequence of poll ticks the spread rule's price history
\* holds at most 100 entries, the latest ones in order: a tick that makes it
\* 101 long drops the oldest entry, and a tick that got no prices adds
\* nothing.
C38_HistoryBounded ==
    call.fn = "check_price_spread" =>
        /\ Len(call.h) <= MaxHistory
        /\ Len(call.h) = (IF call.n <= MaxHistory THEN call.n ELSE MaxHistory)
        /\ \A i \in DOMAIN call.h : call.h[i] = call.n - Len(call.h) + i
\* The 101st fetched tick has been recorded, and then a tick got no prices.
C38_Witness ==
    /\ call.fn = "check_price_spread" /\ call.n = MaxHistory + 1
    /\ ~call.fetched
    /\ Len(call.h) = MaxHistory /\ call.h[1] = 2 /\ call.h[MaxHistory] = call.n

\* C39: send_alert suppresses a message only with a cooldown above 0 and a
\* delivery that succeeded less than cooldown seconds before the call; a
\* failed delivery starts no cooldown and cooldown 0 suppresses nothing.
\* Violated: with no delivery yet the last time counts as 0, and a call made
\* while the loop's clock reads less than the cooldown is suppressed.
C39_SuppressedOnlyAfterDelivery ==
    (call.fn = "send_alert" /\ call.verdict = "suppressed") =>
        /\ call.cooldown > 0
        /\ \E t \in call.delivered : call.at - t < call.cooldown
====
